---- MODULE Spec2Model ----
(***************************************************************************)
(* StarScope host shell (src-tauri/src/lib.rs): sidecar supervision, tray  *)
(* and window event handlers, modelled as a state machine.                 *)
(*                                                                         *)
(* The setup closure of run() is a sequence of steps (publish the data     *)
(* directory, start_sidecar, setup_tray, return).  cleanup_sidecar is      *)
(* modelled at the granularity of its synchronisation points (try_state,   *)
(* Mutex::lock, Option::take, CommandChild::kill, guard drop) so that      *)
(* several close-request handlers may interleave.  Tray handlers touch no  *)
(* shared state of the program and are single steps.                       *)
(***************************************************************************)
EXTENDS Integers, Sequences, FiniteSets, TLC

\* Number of close-request handler instances that may be in flight at once.
NumHandlers == 2

Handlers == 1..NumHandlers

None == "None"
\* The one CommandChild a successful spawn returns.
Child == "Child"

\* Window labels of the application; "main" is the label the code looks up.
WindowLabels == {"main", "aux"}

\* Outcomes of app.shell().sidecar(..) followed by cmd.spawn().
LaunchOutcomes == {"resolve_failed", "spawn_failed", "spawned"}

\* Outcomes of setup_tray: "ok" or the `?` that returned the error.
TrayOutcomes == {"ok", "show_item", "refresh_item", "quit_item", "menu", "icon", "build"}

\* Menu event ids; "other" stands for any id the match does not name.
MenuIds == {"show", "refresh", "quit", "other"}

\* Tray icon events: <<kind, button, button_state>>.
TrayEvents ==
    ({"Click"} \X {"Left", "Right"} \X {"Up", "Down"})
        \cup {<<"Enter", "-", "-">>}

VARIABLES
    phase,        \* "setup" | "running" | "exited" | "aborted"
    exitCode,     \* -1 while running, else the process exit code (101: panic)
    setupPc,      \* position inside the setup closure
    setupResult,  \* "pending" | "ok" | "err": what the setup closure returned
    envVar,       \* TAURI_APP_DATA_DIR: "unset" | "set"
    envWrites,    \* number of std::env::set_var calls
    launch,       \* outcome of the launch attempt ("none" before it)
    spawns,       \* number of successful cmd.spawn() calls
    workerEnv,    \* value of envVar the spawned worker inherited ("-" if none)
    managed,      \* TRUE once app.manage(SidecarState) was called
    installs,     \* number of app.manage(SidecarState) calls
    installed,    \* the Option installed by app.manage ("-" before)
    child,        \* SidecarState.child: None or Child
    lockHolder,   \* handler holding the Mutex guard, 0 if free
    poisoned,     \* Mutex poisoned (a holder panicked)
    trayBuilt,    \* tray icon built, handlers registered
    trayOutcome,  \* outcome of setup_tray ("none" before it)
    windows,      \* labels of the existing windows
    pc,           \* per handler: position in the close-request handler
    hwin,         \* per handler: window whose close was requested
    got,          \* per handler: what child_guard.take() returned ("-" before it)
    takesSome,    \* number of take() calls that returned a handle
    killsSent,    \* number of child.kill() calls
    killLog,      \* log line of the last kill
    launchLog,    \* warning logged by start_sidecar
    lastEvent,    \* last event dispatched to a tray handler
    lastCalls,    \* window calls made by the last tray handler run
    uiLog         \* warnings logged by the last tray handler run

vars == <<phase, exitCode, setupPc, setupResult, envVar, envWrites, launch,
          spawns, workerEnv, managed, installs, installed, child, lockHolder,
          poisoned, trayBuilt, trayOutcome, windows,
          pc, hwin, got, takesSome, killsSent, killLog,
          launchLog, lastEvent, lastCalls, uiLog>>

setupVars == <<envVar, envWrites, launch, spawns, workerEnv, managed, installs,
               installed, trayBuilt, trayOutcome, launchLog>>
storeVars == <<child, lockHolder, poisoned>>
closeVars == <<pc, hwin, got, takesSome, killsSent, killLog>>
winVars   == <<windows>>
uiVars    == <<lastCalls, uiLog>>

----------------------------------------------------------------------------
\* Pure parts of the code.

\* Variant: start_sidecar is called a second time after the first call.
SetupAfter_SidecarTwice(step) ==
    CASE step = "env"     -> "sidecar"
      [] step = "sidecar" -> "sidecar"
      [] step = "tray"    -> "return"
      [] OTHER            -> "done"

\* Variant: the data directory is published after start_sidecar.
SetupAfter_EnvAfterSidecar(step) ==
    CASE step = "env"     -> "sidecar"
      [] step = "sidecar" -> "env"
      [] step = "tray"    -> "return"
      [] OTHER            -> "done"

\* Variant: the tray is set up before the sidecar is started.
SetupAfter_TrayFirst(step) ==
    CASE step = "env"     -> "tray"
      [] step = "tray"    -> "sidecar"
      [] step = "sidecar" -> "return"
      [] OTHER            -> "done"

\* Statement order of the setup closure (lib.rs 182-192).
SetupAfter(step) ==
    CASE step = "env"     -> "sidecar"
      [] step = "sidecar" -> "tray"
      [] step = "tray"    -> "return"
      [] OTHER            -> "done"

\* Variant: the spawn error arm also stores a handle.
LaunchState_ResolvedIsRunning(outcome) ==
    IF outcome # "resolve_failed" THEN Child ELSE None

\* The Option start_sidecar wraps into SidecarState for each outcome.
LaunchState(outcome) == IF outcome = "spawned" THEN Child ELSE None

\* Warning start_sidecar logs for each outcome.
LaunchWarning(outcome) ==
    CASE outcome = "spawn_failed"   -> "warn: sidecar spawn failed"
      [] outcome = "resolve_failed" -> "warn: sidecar not found"
      [] OTHER                      -> "-"

\* Variant: a missing default icon is tolerated.
TrayResult_IconOptional(t) == IF t \in {"ok", "icon"} THEN "ok" ELSE "err"

\* Variant: the error of setup_tray is dropped instead of propagated.
TrayResult_Swallowed(t) == "ok"

\* `setup_tray(app)?`: the closure's result after setup_tray.
TrayResult(t) == IF t = "ok" THEN "ok" ELSE "err"

\* Variant: the handle is read without being moved out.
StoreAfterTake_Peek(c) == c

\* Option::take leaves None behind.
StoreAfterTake(c) == None

\* Variant: the taken handle is dropped without a kill.
AfterTakePc_NeverKill(c) == "unlock"

\* Variant: kill is reached whatever take returned.
AfterTakePc_AlwaysKill(c) == "kill"

\* `if let Some(child) = child_guard.take()`: kill only a handle.
AfterTakePc(c) == IF c # None THEN "kill" ELSE "unlock"

\* Variant: a rejected kill is tried again.
AfterKillPc_Retry(ok) == IF ok THEN "unlock" ELSE "kill"

\* Both arms of `if let Err(e) = child.kill()` only log.
AfterKillPc(ok) == "unlock"

KillLine(ok) == IF ok THEN "info: sidecar terminated" ELSE "warn: kill failed"

\* Variant: the "quit" arm is missing.
MenuAction_NoQuit(id) ==
    CASE id = "show"    -> "show_main_window"
      [] id = "refresh" -> "emit"
      [] OTHER          -> "nothing"

\* The match of handle_tray_menu_event.
MenuAction(id) ==
    CASE id = "show"    -> "show_main_window"
      [] id = "refresh" -> "emit"
      [] id = "quit"    -> "exit"
      [] OTHER          -> "nothing"

\* Variant: the pattern does not constrain button_state.
IsLeftUpClick_AnyState(ev) == ev[1] = "Click" /\ ev[2] = "Left"

\* The pattern of handle_tray_click.
IsLeftUpClick(ev) == ev[1] = "Click" /\ ev[2] = "Left" /\ ev[3] = "Up"

\* Variant: the lookup returns any window, whatever its label.
GetWebviewWindow_Any(ws, label) == ws # {}

\* app.get_webview_window(label) is Some.
GetWebviewWindow(ws, label) == label \in ws

\* Variant: set_focus is skipped when show failed.
ShowCalls_StopOnShowError(ws, showOk, focusOk) ==
    IF ws = {} \/ "main" \notin ws
    THEN << >>
    ELSE IF showOk
         THEN << <<"show", showOk>>, <<"focus", focusOk>> >>
         ELSE << <<"show", showOk>> >>

\* Window calls of show_main_window: show, then focus, on "main" if it exists.
ShowCalls(ws, showOk, focusOk) ==
    IF GetWebviewWindow(ws, "main")
    THEN << <<"show", showOk>>, <<"focus", focusOk>> >>
    ELSE << >>

\* Window calls of the "refresh" arm.
RefreshCalls(ws, emitOk) ==
    IF GetWebviewWindow(ws, "main") THEN << <<"emit", emitOk>> >> ELSE << >>

\* Warnings logged for the failed calls.
Warnings(calls) ==
    {"warn: " \o calls[i][1] \o " failed" : i \in {j \in DOMAIN calls : ~calls[j][2]}}

----------------------------------------------------------------------------
Init ==
    /\ phase = "setup"
    /\ exitCode = -1
    /\ setupPc = "env"
    /\ setupResult = "pending"
    /\ envVar = "unset"
    /\ envWrites = 0
    /\ launch = "none"
    /\ spawns = 0
    /\ workerEnv = "-"
    /\ managed = FALSE
    /\ installs = 0
    /\ installed = "-"
    /\ child = None
    /\ lockHolder = 0
    /\ poisoned = FALSE
    /\ trayBuilt = FALSE
    /\ trayOutcome = "none"
    /\ windows \in {{"main"}, {"main", "aux"}}
    /\ pc = [p \in Handlers |-> "idle"]
    /\ hwin = [p \in Handlers |-> "-"]
    /\ got = [p \in Handlers |-> "-"]
    /\ takesSome = 0
    /\ killsSent = 0
    /\ killLog = "-"
    /\ launchLog = "-"
    /\ lastEvent = <<"none">>
    /\ lastCalls = << >>
    /\ uiLog = {}

----------------------------------------------------------------------------
\* The setup closure of run().

\* lib.rs 182-187: publish the application data directory when resolvable.
SetupEnv ==
    /\ phase = "setup" /\ setupPc = "env"
    /\ \E dirOk \in BOOLEAN :
        /\ envVar' = IF dirOk THEN "set" ELSE envVar
        /\ envWrites' = IF dirOk THEN envWrites + 1 ELSE envWrites
    /\ setupPc' = SetupAfter("env")
    /\ UNCHANGED <<phase, exitCode, setupResult, launch, spawns, workerEnv,
                   managed, installs, installed, trayBuilt, trayOutcome,
                   launchLog, lastEvent>>
    /\ UNCHANGED <<storeVars, closeVars, winVars, uiVars>>

\* start_sidecar: resolve, spawn, wrap the result, app.manage it.
StartSidecar ==
    /\ phase = "setup" /\ setupPc = "sidecar"
    /\ \E outcome \in LaunchOutcomes :
        /\ launch' = outcome
        /\ spawns' = IF outcome = "spawned" THEN spawns + 1 ELSE spawns
        /\ workerEnv' = IF outcome = "spawned" THEN envVar ELSE workerEnv
        /\ launchLog' = LaunchWarning(outcome)
        \* app.manage keeps an already managed state and returns false
        /\ IF managed
           THEN UNCHANGED <<child, installed>>
           ELSE /\ child' = LaunchState(outcome)
                /\ installed' = LaunchState(outcome)
        /\ installs' = installs + 1
        /\ managed' = TRUE
    /\ setupPc' = SetupAfter("sidecar")
    /\ UNCHANGED <<phase, exitCode, setupResult, envVar, envWrites, trayBuilt,
                   trayOutcome, lockHolder, poisoned, lastEvent>>
    /\ UNCHANGED <<closeVars, winVars, uiVars>>

\* setup_tray and the `?` applied to its result.
SetupTray ==
    /\ phase = "setup" /\ setupPc = "tray"
    /\ \E t \in TrayOutcomes :
        /\ trayOutcome' = t
        /\ trayBuilt' = (t = "ok")
        /\ IF TrayResult(t) = "ok"
           THEN /\ setupPc' = SetupAfter("tray")
                /\ UNCHANGED <<phase, exitCode, setupResult>>
           ELSE \* the error leaves the closure; run()'s expect ends the process
                /\ setupPc' = "done"
                /\ setupResult' = "err"
                /\ phase' = "aborted"
                /\ exitCode' = 101
    /\ UNCHANGED <<envVar, envWrites, launch, spawns, workerEnv, managed,
                   installs, installed, launchLog, lastEvent>>
    /\ UNCHANGED <<storeVars, closeVars, winVars, uiVars>>

\* lib.rs 192: Ok(()); the runtime starts dispatching events.
SetupReturn ==
    /\ phase = "setup" /\ setupPc = "return"
    /\ setupPc' = "done"
    /\ setupResult' = "ok"
    /\ phase' = "running"
    /\ UNCHANGED <<exitCode, lastEvent>>
    /\ UNCHANGED <<setupVars, storeVars, closeVars, winVars, uiVars>>

----------------------------------------------------------------------------
\* The on_window_event closure and cleanup_sidecar.

\* WindowEvent::CloseRequested for window w is handed to handler p.
CloseRequested(p, w) ==
    /\ phase = "running"
    /\ pc[p] = "idle"
    /\ w \in windows
    /\ pc' = [pc EXCEPT ![p] = "try_state"]
    /\ hwin' = [hwin EXCEPT ![p] = w]
    /\ UNCHANGED <<phase, exitCode, setupPc, setupResult, lastEvent, got, takesSome,
                   killsSent, killLog>>
    /\ UNCHANGED <<setupVars, storeVars, winVars, uiVars>>

\* app.try_state::<SidecarState>()
CleanupTryState(p) ==
    /\ phase = "running"
    /\ pc[p] = "try_state"
    /\ pc' = [pc EXCEPT ![p] = IF managed THEN "lock" ELSE "ret"]
    /\ UNCHANGED <<phase, exitCode, setupPc, setupResult, hwin, got, takesSome, killsSent, killLog, lastEvent>>
    /\ UNCHANGED <<setupVars, storeVars, winVars, uiVars>>

\* state.child.lock(): blocks while another guard lives; Err when poisoned.
CleanupLock(p) ==
    /\ phase = "running"
    /\ pc[p] = "lock"
    /\ lockHolder = 0
    /\ IF poisoned
       THEN /\ pc' = [pc EXCEPT ![p] = "ret"]
            /\ UNCHANGED lockHolder
       ELSE /\ pc' = [pc EXCEPT ![p] = "take"]
            /\ lockHolder' = p
    /\ UNCHANGED <<phase, exitCode, setupPc, setupResult, hwin, got, takesSome, killsSent, killLog, lastEvent, child, poisoned>>
    /\ UNCHANGED <<setupVars, winVars, uiVars>>

\* Variant: the guard is a temporary of the take expression and is dropped
\* before the kill.
CleanupTake_GuardDropped(p) ==
    /\ phase = "running"
    /\ pc[p] = "take"
    /\ lockHolder = p
    /\ got' = [got EXCEPT ![p] = IF child # None THEN "handle" ELSE "empty"]
    /\ takesSome' = IF child # None THEN takesSome + 1 ELSE takesSome
    /\ child' = None
    /\ pc' = [pc EXCEPT ![p] = IF child # None THEN "kill" ELSE "unlock"]
    /\ lockHolder' = 0
    /\ UNCHANGED <<phase, exitCode, setupPc, setupResult, hwin, killsSent,
                   killLog, lastEvent, poisoned>>
    /\ UNCHANGED <<setupVars, winVars, uiVars>>

\* child_guard.take()
CleanupTake(p) ==
    /\ phase = "running"
    /\ pc[p] = "take"
    /\ lockHolder = p
    /\ got' = [got EXCEPT ![p] = IF child # None THEN "handle" ELSE "empty"]
    /\ takesSome' = IF child # None THEN takesSome + 1 ELSE takesSome
    /\ child' = StoreAfterTake(child)
    /\ pc' = [pc EXCEPT ![p] = AfterTakePc(child)]
    /\ UNCHANGED <<phase, exitCode, setupPc, setupResult, hwin, killsSent,
                   killLog, lastEvent, lockHolder, poisoned>>
    /\ UNCHANGED <<setupVars, winVars, uiVars>>

\* child.kill(), its result logged.
CleanupKill(p) ==
    /\ phase = "running"
    /\ pc[p] = "kill"
    /\ \E ok \in BOOLEAN :
        /\ killsSent' = killsSent + 1
        /\ killLog' = KillLine(ok)
        /\ pc' = [pc EXCEPT ![p] = AfterKillPc(ok)]
    /\ UNCHANGED <<phase, exitCode, setupPc, setupResult, hwin, got, takesSome, lastEvent>>
    /\ UNCHANGED <<setupVars, storeVars, winVars, uiVars>>

\* The guard goes out of scope; cleanup_sidecar returns.
CleanupUnlock(p) ==
    /\ phase = "running"
    /\ pc[p] = "unlock"
    /\ lockHolder' = IF lockHolder = p THEN 0 ELSE lockHolder
    /\ pc' = [pc EXCEPT ![p] = "ret"]
    /\ UNCHANGED <<phase, exitCode, setupPc, setupResult, hwin, got, takesSome, killsSent, killLog, lastEvent, child, poisoned>>
    /\ UNCHANGED <<setupVars, winVars, uiVars>>

\* The closure returns without preventing the close: the window is destroyed.
\* The runtime may end the run once no window is left.
CloseProceed(p) ==
    /\ phase = "running"
    /\ pc[p] = "ret"
    /\ pc' = [pc EXCEPT ![p] = "idle"]
    /\ hwin' = [hwin EXCEPT ![p] = "-"]
    /\ got' = [got EXCEPT ![p] = "-"]
    /\ windows' = windows \ {hwin[p]}
    /\ \E exit \in BOOLEAN :
        IF windows' = {} /\ exit
        THEN phase' = "exited" /\ exitCode' = 0
        ELSE UNCHANGED <<phase, exitCode>>
    /\ UNCHANGED <<setupPc, setupResult, takesSome, killsSent, killLog,
                   lastEvent>>
    /\ UNCHANGED <<setupVars, storeVars, uiVars>>

----------------------------------------------------------------------------
\* Tray handlers.

\* show_main_window; the results of show() and set_focus() are the window's.
ShowMainWindow ==
    \E showOk, focusOk \in {ok \in BOOLEAN : ok \/ GetWebviewWindow(windows, "main")} :
        LET calls == ShowCalls(windows, showOk, focusOk) IN
        /\ lastCalls' = calls
        /\ uiLog' = Warnings(calls)
        /\ UNCHANGED <<windows, phase, exitCode>>

\* The "refresh" arm: emit "refresh-all" to the main window.
EmitRefreshAll ==
    \E emitOk \in {ok \in BOOLEAN : ok \/ GetWebviewWindow(windows, "main")} :
        LET calls == RefreshCalls(windows, emitOk) IN
        /\ lastCalls' = calls
        /\ uiLog' = Warnings(calls)
        /\ UNCHANGED <<winVars, phase, exitCode>>

\* app.exit(0)
AppExit ==
    /\ phase' = "exited"
    /\ exitCode' = 0
    /\ lastCalls' = << >>
    /\ uiLog' = {}
    /\ UNCHANGED winVars

\* A handler run that calls nothing.
NoEffect ==
    /\ lastCalls' = << >>
    /\ uiLog' = {}
    /\ UNCHANGED <<winVars, phase, exitCode>>

\* Variant: the handler takes and kills the worker before the match.
TrayMenuEvent_CleanupFirst(id) ==
    /\ phase = "running"
    /\ trayBuilt
    /\ lockHolder = 0
    /\ lastEvent' = <<"menu", id>>
    /\ child' = None
    /\ takesSome' = IF child # None THEN takesSome + 1 ELSE takesSome
    /\ killsSent' = IF child # None THEN killsSent + 1 ELSE killsSent
    /\ CASE id = "show"    -> ShowMainWindow
         [] id = "refresh" -> EmitRefreshAll
         [] id = "quit"    -> AppExit
         [] OTHER          -> NoEffect
    /\ UNCHANGED <<setupPc, setupResult, lockHolder, poisoned, pc, hwin, got,
                   killLog>>
    /\ UNCHANGED setupVars

\* handle_tray_menu_event
TrayMenuEvent(id) ==
    /\ phase = "running"
    /\ trayBuilt
    /\ lastEvent' = <<"menu", id>>
    /\ CASE MenuAction(id) = "show_main_window" -> ShowMainWindow
         [] MenuAction(id) = "emit"             -> EmitRefreshAll
         [] MenuAction(id) = "exit"             -> AppExit
         [] OTHER                               -> NoEffect
    /\ UNCHANGED <<setupPc, setupResult>>
    /\ UNCHANGED <<setupVars, storeVars, closeVars>>

\* handle_tray_click
TrayClick(ev) ==
    /\ phase = "running"
    /\ trayBuilt
    /\ lastEvent' = <<"tray", ev[1], ev[2], ev[3]>>
    /\ IF IsLeftUpClick(ev) THEN ShowMainWindow ELSE NoEffect
    /\ UNCHANGED <<setupPc, setupResult>>
    /\ UNCHANGED <<setupVars, storeVars, closeVars>>

----------------------------------------------------------------------------
Next ==
    \/ SetupEnv
    \/ StartSidecar
    \/ SetupTray
    \/ SetupReturn
    \/ \E p \in Handlers, w \in WindowLabels : CloseRequested(p, w)
    \/ \E p \in Handlers : CleanupTryState(p)
    \/ \E p \in Handlers : CleanupLock(p)
    \/ \E p \in Handlers : CleanupTake(p)
    \/ \E p \in Handlers : CleanupKill(p)
    \/ \E p \in Handlers : CleanupUnlock(p)
    \/ \E p \in Handlers : CloseProceed(p)
    \/ \E id \in MenuIds : TrayMenuEvent(id)
    \/ \E ev \in TrayEvents : TrayClick(ev)

Spec == Init /\ [][Next]_vars

TypeOK ==
    /\ phase \in {"setup", "running", "exited", "aborted"}
    /\ exitCode \in {-1, 0, 101}
    /\ setupPc \in {"env", "sidecar", "tray", "return", "done"}
    /\ setupResult \in {"pending", "ok", "err"}
    /\ envVar \in {"unset", "set"}
    /\ launch \in LaunchOutcomes \cup {"none"}
    /\ child \in {None, Child}
    /\ lockHolder \in Handlers \cup {0}
    /\ windows \subseteq WindowLabels
    /\ \A p \in Handlers :
        pc[p] \in {"idle", "try_state", "lock", "take", "kill", "unlock", "ret"}

----------------------------------------------------------------------------
\* Properties.

\* cleanup_sidecar of handler p has returned after a take.
Completed(p) == got[p] # "-" /\ pc[p] = "ret"

\* Handles that exist: the one in the store and those a handler moved out
\* and has not yet consumed by kill.
LiveHandles ==
    Cardinality({p \in Handlers : pc[p] = "kill"}) + (IF child # None THEN 1 ELSE 0)

\* C1: after a successful spawn was installed, among any number of
\* close-request handlers interleaved in any way exactly one obtains the
\* handle from the store and sends the kill; every other one observes an
\* empty store and sends nothing.
C1_ExactlyOneTaker ==
    launch = "spawned" =>
        /\ takesSome <= 1
        /\ killsSent <= takesSome
        /\ Cardinality({p \in Handlers : got[p] = "handle"}) <= 1
        /\ (\E p \in Handlers : got[p] # "-") => takesSome = 1
        /\ \A p \in Handlers :
            /\ (got[p] = "handle" /\ pc[p] # "kill") => killsSent = 1
            /\ got[p] = "empty" => (pc[p] # "kill" /\ child = None /\ killsSent = 1)

\* Two handlers in flight at once: one took the handle, the other found None.
C1_Witness ==
    \E p, q \in Handlers :
        /\ p # q
        /\ got[p] = "handle" /\ pc[p] = "ret"
        /\ got[q] = "empty" /\ pc[q] \in {"unlock", "ret"}
        /\ killsSent = 1

\* C2: with a spawned worker the first close-request moves the store from
\* Running to Absent and sends exactly one kill; later close-requests find
\* Absent and send none, so the total over any sequence is exactly one.
C2_OneKillOverCloses ==
    /\ [](launch = "spawned" =>
            /\ killsSent <= 1
            /\ (\E p \in Handlers : Completed(p)) => (killsSent = 1 /\ child = None)
            /\ "main" \notin windows => (killsSent = 1 /\ child = None))
    /\ [][/\ killsSent' # killsSent =>
                (killsSent = 0 /\ killsSent' = 1 /\ installed = Child /\ child' = None)
          /\ (child # None /\ child' = None) =>
                (takesSome' = 1 /\ \E p \in Handlers : pc[p] = "take" /\ pc'[p] = "kill")
          /\ \A p \in Handlers :
                (pc[p] = "take" /\ pc'[p] # "take" /\ child = None) =>
                    (child' = None /\ killsSent' = killsSent /\ pc'[p] = "unlock")]_vars

\* The close of "main" has finished and the window is gone; the single kill
\* was sent, and the only handler now running found None.
C2_Witness ==
    /\ launch = "spawned"
    /\ windows = {"aux"}
    /\ \E q \in Handlers :
        /\ got[q] = "empty" /\ pc[q] = "ret"
        /\ \A p \in Handlers \ {q} : pc[p] = "idle"
    /\ killsSent = 1 /\ child = None

\* C3: in every run with a spawned worker, once the application has ended
\* (close-request, tray Quit, or startup aborted after the spawn) a kill
\* signal has been sent to the worker.
C3_KillBeforeExit ==
    (launch = "spawned" /\ phase \in {"exited", "aborted"}) => killsSent >= 1

\* C4: start_sidecar installs a state exactly once for each launch outcome,
\* and the installed state holds a handle iff the spawn succeeded.
C4_InstallMatchesOutcome ==
    /\ launch = "none" => (installs = 0 /\ ~managed /\ installed = "-")
    /\ launch # "none" =>
        /\ installs = 1
        /\ managed
        /\ installed \in {None, Child}
        /\ installed = Child <=> launch = "spawned"
        /\ spawns = (IF launch = "spawned" THEN 1 ELSE 0)
        /\ launchLog = "-" <=> launch = "spawned"

\* A failed spawn after a successful resolution was installed as Absent.
C4_Witness ==
    launch = "spawn_failed" /\ installs = 1 /\ installed = None /\ child = None

\* C5: launch failures never abort startup: the setup closure succeeds iff
\* tray construction succeeds, whatever the launch outcome; with a missing
\* worker executable startup completes with the store Absent and the tray
\* built, and a later Show still shows the main window.
C5_LaunchNeverAborts ==
    /\ [](/\ setupResult # "pending" => (setupResult = "ok" <=> trayOutcome = "ok")
          /\ setupResult = "pending" => phase = "setup"
          /\ setupResult = "ok" => (phase \in {"running", "exited"} /\ trayBuilt)
          /\ setupResult = "err" => phase = "aborted"
          /\ (trayOutcome = "ok" /\ setupPc = "done") => setupResult = "ok"
          /\ (launch = "resolve_failed" /\ setupResult = "ok") =>
                (installed = None /\ child = None /\ trayBuilt))
    /\ [][(TrayMenuEvent("show") /\ "main" \in windows) =>
            /\ Len(lastCalls') = 2
            /\ lastCalls'[1][1] = "show"
            /\ lastCalls'[2][1] = "focus"]_vars

\* No worker executable, startup completed, and Show has shown the window.
C5_Witness ==
    /\ launch = "resolve_failed"
    /\ setupResult = "ok" /\ phase = "running" /\ trayBuilt
    /\ lastEvent = <<"menu", "show">>
    /\ lastCalls # << >> /\ lastCalls[1] = <<"show", TRUE>>
    /\ "main" \in windows

\* C6: the tray Quit action always ends the application with exit code 0,
\* whether the store is Running or Absent, and itself takes nothing from the
\* store and sends no kill.
C6_QuitExitsZero ==
    /\ [](lastEvent = <<"menu", "quit">> => (phase = "exited" /\ exitCode = 0))
    /\ [][TrayMenuEvent("quit") =>
            /\ phase' = "exited" /\ exitCode' = 0
            /\ UNCHANGED <<child, lockHolder, poisoned, killsSent, takesSome,
                           pc, got, windows>>]_vars

\* Quit ended the run while the store still held the handle.
C6_Witness ==
    /\ lastEvent = <<"menu", "quit">>
    /\ phase = "exited" /\ exitCode = 0
    /\ child = Child /\ killsSent = 0

\* C7: a rejected kill neither blocks shutdown nor is retried: the handler
\* returns, the close proceeds and the store is Absent, as after a
\* successful kill.
C7_KillFailureProceeds ==
    /\ [](/\ killLog # "-" =>
                (killsSent = 1 /\ child = None /\ ~poisoned /\ phase # "aborted"
                 /\ \A p \in Handlers : pc[p] # "kill")
          /\ \A p \in Handlers :
                (phase = "running" /\ pc[p] = "unlock") => ENABLED CleanupUnlock(p))
    /\ [][\A p \in Handlers :
            /\ (pc[p] = "kill" /\ pc'[p] # "kill") =>
                    (pc'[p] = "unlock" /\ child' = None /\ killsSent' = killsSent + 1)
            /\ (pc[p] = "ret" /\ pc'[p] # "ret") =>
                    (pc'[p] = "idle" /\ hwin[p] \notin windows')]_vars

\* The kill was rejected; every handler returned, the windows were closed
\* and the run ended normally.
C7_Witness ==
    /\ killLog = "warn: kill failed"
    /\ child = None /\ killsSent = 1
    /\ windows = {}
    /\ phase = "exited" /\ exitCode = 0

\* C8: no tray or window handler runs before the store is installed: launch
\* and installation are complete before the tray handlers are registered
\* and before any close-request, menu or tray-click event is dispatched.
C8_StoreInstalledFirst ==
    /\ trayBuilt => (managed /\ installs = 1 /\ launch # "none")
    /\ phase = "running" => (managed /\ launch # "none")
    /\ lastEvent # <<"none">> => managed
    /\ \A p \in Handlers :
        /\ pc[p] # "idle" => managed
        /\ pc[p] = "ret" => got[p] # "-"

\* A close-request handler is looking up the installed store.
C8_Witness ==
    /\ managed /\ trayBuilt
    /\ \E p \in Handlers : pc[p] = "lock"
    /\ lastEvent # <<"none">>

\* C9: RefreshAll without a window named "main" raises no error and changes
\* nothing: no event emitted, no window shown, store unchanged.  With the
\* window it emits exactly one "refresh-all"; an emit failure is logged and
\* not propagated.
C9_RefreshAllNoWindow ==
    /\ [](lastEvent = <<"menu", "refresh">> =>
            /\ Len(lastCalls) <= 1
            /\ \A i \in DOMAIN lastCalls : lastCalls[i][1] = "emit"
            /\ uiLog = (IF lastCalls # << >> /\ ~lastCalls[1][2]
                        THEN {"warn: emit failed"} ELSE {}))
    /\ [][TrayMenuEvent("refresh") =>
            /\ UNCHANGED <<phase, exitCode, setupPc, setupResult>>
            /\ UNCHANGED <<setupVars, storeVars, closeVars, winVars>>
            /\ IF "main" \in windows
               THEN Len(lastCalls') = 1 /\ lastCalls'[1][1] = "emit"
               ELSE lastCalls' = << >> /\ uiLog' = {}]_vars

\* RefreshAll ran while another window, but not "main", existed.
C9_Witness ==
    /\ lastEvent = <<"menu", "refresh">>
    /\ windows = {"aux"}
    /\ lastCalls = << >> /\ uiLog = {}
    /\ phase = "running"

\* C10: the store never holds more than the one spawned handle, and a
\* close-request on an Absent store is a no-op: no kill, store stays
\* Absent, no error.
C10_AbsentCloseIsNoOp ==
    /\ [](/\ LiveHandles <= spawns
          /\ spawns <= 1
          /\ child # None => (child = Child /\ installed = Child /\ takesSome = 0)
          /\ \A p \in Handlers :
                got[p] = "empty" => (pc[p] \in {"unlock", "ret"} /\ child = None))
    /\ [][\A p \in Handlers :
            (pc[p] = "take" /\ pc'[p] # "take" /\ child = None) =>
                /\ got'[p] = "empty"
                /\ pc'[p] = "unlock"
                /\ UNCHANGED <<child, killsSent, killLog, takesSome, poisoned,
                               phase, exitCode>>]_vars

\* No worker was started; a close-request completed without any kill.
C10_Witness ==
    /\ launch # "spawned" /\ launch # "none"
    /\ \E p \in Handlers : got[p] = "empty" /\ pc[p] = "ret"
    /\ killsSent = 0 /\ child = None /\ phase = "running"

\* Lifecycle state of the worker as the store shows it.
WorkerState ==
    IF ~managed THEN "Uninitialized"
    ELSE IF child # None THEN "Running" ELSE "Absent"

\* Handler p executes child_guard.take().
TakeStep(p) == pc[p] = "take" /\ pc'[p] # "take" /\ lockHolder = p

\* C11: per run the worker's lifecycle has only the transitions
\* Uninitialized -> Running or Absent at startup and Running -> Absent on a
\* close-request; the worker is spawned at most once, Absent never goes back
\* to Running, and Running -> Absent happens at most once and only inside
\* the close-request handler.
C11_LifecycleTransitions ==
    /\ [](spawns <= 1 /\ installs <= 1 /\ takesSome <= 1
          /\ (WorkerState = "Running" => (spawns = 1 /\ takesSome = 0)))
    /\ [][WorkerState' # WorkerState =>
            \/ /\ WorkerState = "Uninitialized"
               /\ WorkerState' \in {"Running", "Absent"}
               /\ phase = "setup" /\ setupPc = "sidecar"
            \/ /\ WorkerState = "Running"
               /\ WorkerState' = "Absent"
               /\ phase = "running"
               /\ takesSome = 0 /\ takesSome' = 1
               /\ \E p \in Handlers : TakeStep(p)]_vars
    /\ [][spawns' # spawns => (spawns = 0 /\ WorkerState = "Uninitialized")]_vars

\* The handle has been taken by a close-request handler: Running -> Absent.
C11_Witness ==
    /\ WorkerState = "Absent"
    /\ launch = "spawned" /\ spawns = 1 /\ takesSome = 1
    /\ \E p \in Handlers : pc[p] = "kill"

\* C12: show_main_window is best-effort: without a window named "main" it
\* does nothing; with it, show and then focus are requested, focus also when
\* show failed, and neither failure reaches the caller.
C12_ShowBestEffort ==
    /\ [](lastEvent = <<"menu", "show">> =>
            \/ lastCalls = << >> /\ uiLog = {}
            \/ /\ Len(lastCalls) = 2
               /\ lastCalls[1][1] = "show" /\ lastCalls[2][1] = "focus"
               /\ uiLog = (IF lastCalls[1][2] THEN {} ELSE {"warn: show failed"})
                            \cup (IF lastCalls[2][2] THEN {} ELSE {"warn: focus failed"}))
    /\ [][TrayMenuEvent("show") =>
            /\ lastCalls' = << >> <=> "main" \notin windows
            /\ UNCHANGED <<phase, exitCode, setupPc, setupResult, windows>>
            /\ UNCHANGED <<setupVars, storeVars, closeVars>>]_vars

\* show failed on the existing main window and focus was still requested.
C12_Witness ==
    /\ lastEvent = <<"menu", "show">>
    /\ lastCalls = << <<"show", FALSE>>, <<"focus", TRUE>> >>
    /\ uiLog = {"warn: show failed"}
    /\ phase = "running"

\* What the Show action does in a step: show then focus on "main" if it
\* exists, nothing else.
ShowEffect ==
    /\ IF "main" \in windows
       THEN /\ Len(lastCalls') = 2
            /\ lastCalls'[1][1] = "show" /\ lastCalls'[2][1] = "focus"
       ELSE lastCalls' = << >>
    /\ UNCHANGED <<phase, exitCode, windows>>
    /\ UNCHANGED <<storeVars, closeVars>>

\* C13: a left-button, button-up tray click has exactly the effect of the
\* Show menu action; every other tray icon event has no effect on windows
\* or on the worker store.
C13_LeftClickIsShow ==
    /\ [](ENABLED TrayClick(<<"Click", "Left", "Up">>) <=> ENABLED TrayMenuEvent("show"))
    /\ [][/\ TrayClick(<<"Click", "Left", "Up">>) => ShowEffect
          /\ TrayMenuEvent("show") => ShowEffect
          /\ \A ev \in TrayEvents \ {<<"Click", "Left", "Up">>} :
                TrayClick(ev) =>
                    /\ lastCalls' = << >> /\ uiLog' = {}
                    /\ UNCHANGED <<phase, exitCode, windows>>
                    /\ UNCHANGED <<storeVars, closeVars>>]_vars

\* A left-button-up click has shown and focused the main window.
C13_Witness ==
    /\ lastEvent = <<"tray", "Click", "Left", "Up">>
    /\ lastCalls = << <<"show", TRUE>>, <<"focus", TRUE>> >>

\* C14: TAURI_APP_DATA_DIR is written at most once per run, only in the
\* setup closure and before the spawn is attempted, so a spawned worker
\* starts with the published value (when the directory was resolvable); no
\* handler writes it afterwards.
C14_EnvWrittenOnceBeforeSpawn ==
    /\ [](/\ envWrites <= 1
          /\ envVar = "set" <=> envWrites = 1
          /\ spawns >= 1 => workerEnv = envVar
          /\ spawns = 0 => workerEnv = "-")
    /\ [][(envVar' # envVar \/ envWrites' # envWrites) =>
            /\ phase = "setup" /\ setupPc = "env"
            /\ launch = "none" /\ spawns = 0 /\ ~managed
            /\ envVar = "unset" /\ envVar' = "set"]_vars

\* The directory was resolvable and the spawned worker inherited the
\* variable; events are being handled.
C14_Witness ==
    /\ envVar = "set" /\ envWrites = 1
    /\ launch = "spawned" /\ workerEnv = "set"
    /\ phase = "running" /\ lastEvent # <<"none">>

\* C15: Show, RefreshAll, tray icon clicks and menu events with an
\* unrecognised id never change the worker store and never send a kill; the
\* only operation that removes a handle from the store is the close-request
\* handler.
C15_TrayLeavesStore ==
    /\ [][(\/ TrayMenuEvent("show")
           \/ TrayMenuEvent("refresh")
           \/ TrayMenuEvent("other")
           \/ \E ev \in TrayEvents : TrayClick(ev)) =>
            /\ UNCHANGED <<managed, child, lockHolder, poisoned>>
            /\ UNCHANGED <<takesSome, killsSent, killLog, pc, got>>]_vars
    /\ [][(child # None /\ child' = None) =>
            /\ lastEvent' = lastEvent
            /\ \E p \in Handlers : TakeStep(p) /\ hwin[p] \in WindowLabels]_vars
    /\ [][killsSent' # killsSent =>
            /\ lastEvent' = lastEvent
            /\ \E p \in Handlers : pc[p] = "kill" /\ hwin[p] \in WindowLabels]_vars

\* A menu event with an unrecognised id was handled while the store held
\* the handle.
C15_Witness ==
    /\ lastEvent = <<"menu", "other">>
    /\ child = Child /\ killsSent = 0 /\ takesSome = 0
    /\ phase = "running"

\* C16: the kill is sent while the close-request handler holds the store's
\* lock and after the handle was removed: when a kill is sent the store is
\* already Absent, and no other handler reads or modifies the store until
\* the kill has returned.
C16_KillUnderLock ==
    /\ [](\A p \in Handlers :
            /\ pc[p] = "kill" => (lockHolder = p /\ child = None /\ got[p] = "handle")
            /\ pc[p] \in {"take", "kill"} =>
                /\ lockHolder = p
                /\ \A q \in Handlers \ {p} :
                    /\ pc[q] \notin {"take", "kill", "unlock"}
                    /\ ~ENABLED CleanupLock(q)
                    /\ ~ENABLED CleanupTake(q))
    /\ [][killsSent' # killsSent =>
            \E p \in Handlers :
                /\ pc[p] = "kill"
                /\ lockHolder = p /\ lockHolder' = p
                /\ child = None /\ child' = None]_vars

\* One handler is about to send the kill under the lock while another
\* waits for the lock.
C16_Witness ==
    \E p, q \in Handlers :
        /\ p # q
        /\ pc[p] = "kill" /\ lockHolder = p /\ child = None
        /\ pc[q] = "lock"

\* C17: when tray construction fails (a menu item, the menu, the missing
\* default icon, or the tray build) startup aborts with an error; the abort
\* comes after the launch outcome was installed, and the abort path takes
\* nothing from the store.
C17_TrayFailureAborts ==
    /\ trayOutcome \notin {"none", "ok"} =>
        /\ phase = "aborted" /\ setupResult = "err" /\ exitCode # 0
        /\ ~trayBuilt
        /\ managed /\ installs = 1 /\ launch # "none"
        /\ installed = (IF launch = "spawned" THEN Child ELSE None)
        /\ child = installed
        /\ takesSome = 0 /\ killsSent = 0
        /\ \A p \in Handlers : pc[p] = "idle" /\ got[p] = "-"
    /\ phase = "aborted" => trayOutcome \in TrayOutcomes \ {"ok"}

\* The default icon was missing: startup aborted with the spawned worker's
\* handle still installed.
C17_Witness ==
    /\ trayOutcome = "icon"
    /\ phase = "aborted" /\ setupResult = "err"
    /\ installed = Child /\ child = Child
====
